---- MODULE Spec2Model ----
(***************************************************************************)
(* The workflow of the blog-post assistant (src/App.tsx, second App,       *)
(* lines 254-600) with the controls of its stage components                *)
(* (SeoTopicGenerator, InputForm, ImageCustomization) and the service      *)
(* calls of geminiService / naverService (src/unnamed/part_001).           *)
(*                                                                         *)
(* Every async handler is cut at its awaits: the code between two awaits   *)
(* runs to completion on the single JavaScript thread and is one action.   *)
(* A handler suspended at an await is a record of the bag inflight that    *)
(* holds what its closure captured; the awaited call settles with a value  *)
(* drawn from a small set or with a failure.                               *)
(***************************************************************************)
EXTENDS Integers, Sequences, FiniteSets, Bags, TLC

VARIABLES
    step,               \* App.tsx:277
    isLoading,          \* App.tsx:278
    loadingMessage,     \* App.tsx:279
    topicIdeas,         \* App.tsx:280
    generatedPost,      \* App.tsx:281
    blogName,           \* App.tsx:282
    results,            \* App.tsx:283
    naverSearchResults, \* App.tsx:284
    error,              \* App.tsx:285
    naverWarning,       \* App.tsx:286
    naverClientId,      \* App.tsx:289
    naverClientSecret,  \* App.tsx:290
    inflight,           \* the handlers suspended at an await
    lastOp,             \* the step taken last: handler, paragraph, call issued
    edits               \* how many times the controls of a card were used

vars == <<step, isLoading, loadingMessage, topicIdeas, generatedPost, blogName,
          results, naverSearchResults, error, naverWarning, naverClientId,
          naverClientSecret, inflight, lastOp, edits>>

(***************************************************************************)
(* Bounds of the model.                                                    *)
(***************************************************************************)
\* The longest list the segmentation call answers with, and the largest
\* paragraph count the form submits.
MaxParagraphs == 2
\* How many handlers can be suspended at an await at once.
MaxInFlight == 2
\* How many times the controls of the cards (file input, radio buttons,
\* directive, translate button) are used in one behaviour.
MaxEdits == 5

(***************************************************************************)
(* Values.  JavaScript's undefined and null are the strings below.         *)
(***************************************************************************)
Undefined == "undefined"
Null == "null"

\* A string is falsy exactly when it is empty; undefined and null are falsy.
Truthy(v) == v # "" /\ v # Undefined /\ v # Null

\* String.prototype.trim on the strings of the model: " " is the one
\* whitespace-only string.
Trim(s) == IF s = " " THEN "" ELSE s

Steps == {"GENERATE_TOPIC", "VISUALIZE_POST", "CUSTOMIZE_IMAGES", "VIEW_RESULTS"}

ImageEditStatus ==
    {"pending", "uploaded", "asis", "editing", "translating", "done", "error"}

\* What the user and the services can supply.
ClientIds == {"", "id"}
ClientSecrets == {"", "secret"}
Keywords == {" ", "kw"}
SearchResponses == {<<>>, <<"hit">>}
TopicResponses == {<<>>, <<"t1">>, <<"t1", "t2", "t3">>}
PostTexts == {"post", " "}
BlogNames == {"", "name"}
BodyInputs == {" ", "body"}
CountInputs == 0..MaxParagraphs
ImageSources == {"generate", "upload"}
Files == {"file"}
DirectiveInputs == {"ko"}
TranslationTexts == {"\"en\""}
Prompts == {"prompt"}
GeneratedImages == {"data:generated"}
EditedImages == {"data:edited"}

\* The lists the segmentation call can answer with: the first n paragraphs
\* of the text, for any n; the response schema (part_001:173-184) does not
\* fix the length of the list.
Paragraph(i) == "p" \o ToString(i)
ParagraphResponses ==
    {[i \in 1..n |-> Paragraph(i)] : n \in 0..MaxParagraphs}

\* lastOp: the handler (and continuation) that ran last, the paragraph or
\* count it was about, the call it issued and how the handler ended.
OpEnd(name, i, c, e) == [op |-> name, idx |-> i, call |-> c, end |-> e]
Op(name, i, c) == OpEnd(name, i, c, "none")
NoOp == Op("init", 0, "none")

NoError == [prefix |-> Null, detail |-> Null]

\* handleError's message: `${messagePrefix}. ... ${errorMessage}`
ErrorMessage(messagePrefix, errorMessage) ==
    [prefix |-> messagePrefix, detail |-> errorMessage]

Suspend(task) == inflight (+) SetToBag({task})
Resume(task) == inflight (-) SetToBag({task})
Suspended == BagToSet(inflight)
CanSuspend == BagCardinality(inflight) < MaxInFlight

(***************************************************************************)
(* Initial state: useState's initial values; the two keys come from        *)
(* localStorage, which holds whatever an earlier session saved.            *)
(***************************************************************************)
Init ==
    /\ step = "GENERATE_TOPIC"
    /\ isLoading = FALSE
    /\ loadingMessage = ""
    /\ topicIdeas = <<>>
    /\ generatedPost = ""
    /\ blogName = ""
    /\ results = <<>>
    /\ naverSearchResults = <<>>
    /\ error = NoError
    /\ naverWarning = Null
    /\ naverClientId \in ClientIds
    /\ naverClientSecret \in ClientSecrets
    /\ inflight = EmptyBag
    /\ lastOp = NoOp
    /\ edits = 0

(***************************************************************************)
(* Stage 1: SeoTopicGenerator                                              *)
(***************************************************************************)
\* The save button of the settings form: disabled={!clientId || !clientSecret}
\* (NaverApiSettings.tsx:77); the form is part of SeoTopicGenerator.
handleSaveApiKeys(clientId, clientSecret) ==
    /\ step = "GENERATE_TOPIC"
    /\ Truthy(clientId) /\ Truthy(clientSecret)
    /\ naverClientId' = clientId
    /\ naverClientSecret' = clientSecret
    /\ lastOp' = Op("handleSaveApiKeys", 0, "none")
    /\ UNCHANGED <<step, isLoading, loadingMessage, topicIdeas, generatedPost,
                   blogName, results, naverSearchResults, error, naverWarning,
                   inflight>>
    /\ UNCHANGED edits

\* The submit button of the keyword form.
AnalyzeEnabled == step = "GENERATE_TOPIC" /\ ~isLoading

\* handleAnalyzeSubmit with a blank keyword: alert and return.
AnalyzeRejected(mainKeyword) ==
    /\ AnalyzeEnabled
    /\ Truthy(mainKeyword)
    /\ Trim(mainKeyword) = ""
    /\ lastOp' = Op("handleAnalyzeSubmit:rejected", 0, "none")
    /\ UNCHANGED <<step, isLoading, loadingMessage, topicIdeas, generatedPost,
                   blogName, results, naverSearchResults, error, naverWarning,
                   naverClientId, naverClientSecret, inflight>>
    /\ UNCHANGED edits

\* handleAnalyzeNaver up to its return or its await.
handleAnalyzeNaver(mainKeyword) ==
    /\ AnalyzeEnabled
    /\ Trim(mainKeyword) # ""
    /\ error' = NoError
    /\ topicIdeas' = <<>>
    /\ naverSearchResults' = <<>>
    /\ loadingMessage' = "analyzing"
    /\ IF ~Truthy(naverClientId) \/ ~Truthy(naverClientSecret)
       THEN /\ naverWarning' = "noKeys"
            /\ isLoading' = FALSE
            /\ inflight' = inflight
            /\ lastOp' = Op("handleAnalyzeNaver:noKeys", 0, "none")
       ELSE /\ CanSuspend
            /\ naverWarning' = Null
            /\ isLoading' = TRUE
            /\ inflight' = Suspend([handler |-> "handleAnalyzeNaver"])
            /\ lastOp' = Op("handleAnalyzeNaver", 0, "searchNaverBlogs")
    /\ UNCHANGED <<step, generatedPost, blogName, results, naverClientId,
                   naverClientSecret>>
    /\ UNCHANGED edits

AnalyzeResolved(naverBlogs) ==
    /\ [handler |-> "handleAnalyzeNaver"] \in Suspended
    /\ inflight' = Resume([handler |-> "handleAnalyzeNaver"])
    /\ naverSearchResults' = naverBlogs
    /\ isLoading' = FALSE
    /\ loadingMessage' = ""
    /\ lastOp' = Op("handleAnalyzeNaver:resolved", Len(naverBlogs), "none")
    /\ UNCHANGED <<step, topicIdeas, generatedPost, blogName, results, error,
                   naverWarning, naverClientId, naverClientSecret>>
    /\ UNCHANGED edits

\* A failed search that shows no advisory.
AnalyzeFailedSilently ==
    /\ [handler |-> "handleAnalyzeNaver"] \in Suspended
    /\ inflight' = Resume([handler |-> "handleAnalyzeNaver"])
    /\ isLoading' = FALSE
    /\ loadingMessage' = ""
    /\ lastOp' = Op("handleAnalyzeNaver:failed", 0, "none")
    /\ UNCHANGED <<step, topicIdeas, generatedPost, blogName, results,
                   naverSearchResults, error, naverWarning, naverClientId,
                   naverClientSecret>>
    /\ UNCHANGED edits

AnalyzeFailed ==
    /\ [handler |-> "handleAnalyzeNaver"] \in Suspended
    /\ inflight' = Resume([handler |-> "handleAnalyzeNaver"])
    /\ naverWarning' = "searchFailed"
    /\ isLoading' = FALSE
    /\ loadingMessage' = ""
    /\ lastOp' = Op("handleAnalyzeNaver:failed", 0, "none")
    /\ UNCHANGED <<step, topicIdeas, generatedPost, blogName, results,
                   naverSearchResults, error, naverClientId, naverClientSecret>>
    /\ UNCHANGED edits

\* The "recommend topics" button is rendered inside the search-hit panel.
GenerateTopicsEnabled ==
    step = "GENERATE_TOPIC" /\ Len(naverSearchResults) > 0 /\ ~isLoading

\* generateSeoTopics picks its prompt by whether it was given search hits.
TopicPrompt(naverBlogs) == IF Len(naverBlogs) > 0 THEN "withHits" ELSE "fallback"

handleGenerateTopics ==
    /\ GenerateTopicsEnabled
    /\ CanSuspend
    /\ isLoading' = TRUE
    /\ loadingMessage' = "generatingTopics"
    /\ error' = NoError
    /\ topicIdeas' = <<>>
    /\ inflight' = Suspend([handler |-> "handleGenerateTopics"])
    /\ lastOp' = Op("handleGenerateTopics", 0,
                    "generateSeoTopics:" \o TopicPrompt(naverSearchResults))
    /\ UNCHANGED <<step, generatedPost, blogName, results, naverSearchResults,
                   naverWarning, naverClientId, naverClientSecret>>
    /\ UNCHANGED edits

\* handleError, then the finally block of the handler that called it.
handleError(messagePrefix, errorMessage) ==
    /\ error' = ErrorMessage(messagePrefix, errorMessage)
    /\ isLoading' = FALSE
    /\ loadingMessage' = ""

GenerateTopicsResolved(topics) ==
    /\ [handler |-> "handleGenerateTopics"] \in Suspended
    /\ inflight' = Resume([handler |-> "handleGenerateTopics"])
    /\ IF Len(topics) = 0
       THEN /\ handleError("topics", "noTopics")
            /\ topicIdeas' = topicIdeas
       ELSE /\ topicIdeas' = topics
            /\ isLoading' = FALSE
            /\ loadingMessage' = ""
            /\ error' = error
    /\ lastOp' = Op("handleGenerateTopics:resolved", 0, "none")
    /\ UNCHANGED <<step, generatedPost, blogName, results, naverSearchResults,
                   naverWarning, naverClientId, naverClientSecret>>
    /\ UNCHANGED edits

GenerateTopicsFailed ==
    /\ [handler |-> "handleGenerateTopics"] \in Suspended
    /\ inflight' = Resume([handler |-> "handleGenerateTopics"])
    /\ handleError("topics", "generateSeoTopics")
    /\ lastOp' = Op("handleGenerateTopics:failed", 0, "none")
    /\ UNCHANGED <<step, topicIdeas, generatedPost, blogName, results,
                   naverSearchResults, naverWarning, naverClientId,
                   naverClientSecret>>
    /\ UNCHANGED edits

\* The topic cards are rendered while there are ideas and nothing loads.
TopicSelectEnabled ==
    step = "GENERATE_TOPIC" /\ Len(topicIdeas) > 0 /\ ~isLoading

handleTopicSelected(topic) ==
    /\ TopicSelectEnabled
    /\ CanSuspend
    /\ isLoading' = TRUE
    /\ loadingMessage' = "writingPost"
    /\ error' = NoError
    /\ topicIdeas' = <<>>
    /\ inflight' = Suspend([handler |-> "handleTopicSelected"])
    /\ lastOp' = Op("handleTopicSelected", 0, "generateBlogPost")
    /\ UNCHANGED <<step, generatedPost, blogName, results, naverSearchResults,
                   naverWarning, naverClientId, naverClientSecret>>
    /\ UNCHANGED edits

TopicSelectedResolved(text) ==
    /\ [handler |-> "handleTopicSelected"] \in Suspended
    /\ inflight' = Resume([handler |-> "handleTopicSelected"])
    /\ generatedPost' = Trim(text)
    /\ step' = "VISUALIZE_POST"
    /\ isLoading' = FALSE
    /\ loadingMessage' = ""
    /\ lastOp' = Op("handleTopicSelected:resolved", 0, "none")
    /\ UNCHANGED <<topicIdeas, blogName, results, naverSearchResults, error,
                   naverWarning, naverClientId, naverClientSecret>>
    /\ UNCHANGED edits

TopicSelectedFailed ==
    /\ [handler |-> "handleTopicSelected"] \in Suspended
    /\ inflight' = Resume([handler |-> "handleTopicSelected"])
    /\ handleError("post", "generateBlogPost")
    /\ step' = "GENERATE_TOPIC"
    /\ lastOp' = Op("handleTopicSelected:failed", 0, "none")
    /\ UNCHANGED <<topicIdeas, generatedPost, blogName, results,
                   naverSearchResults, naverWarning, naverClientId,
                   naverClientSecret>>
    /\ UNCHANGED edits

(***************************************************************************)
(* Stage 2: VisualizePostForm (InputForm.tsx) and handleVisualizationSetup *)
(***************************************************************************)
\* What the form's textarea can hold: the draft it was given, or typed text.
BodyTexts == {generatedPost} \cup BodyInputs

FormStates ==
    [blogText : BodyTexts, numParagraphs : CountInputs, blogName : BlogNames,
     imageSource : ImageSources]

\* The submit button: disabled={isLoading || !blogText}
SubmitEnabled(formState) ==
    step = "VISUALIZE_POST" /\ ~isLoading /\ Truthy(formState.blogText)

\* A validation that does not look at the paragraph count.
FormValidIgnoringCount(formState) == Trim(formState.blogText) # ""

\* handleFormSubmit's validation.
FormValid(formState) ==
    Trim(formState.blogText) # "" /\ formState.numParagraphs > 0

SubmitRejected(formState) ==
    /\ SubmitEnabled(formState)
    /\ ~FormValid(formState)
    /\ lastOp' = Op("handleFormSubmit:rejected", 0, "none")
    /\ UNCHANGED <<step, isLoading, loadingMessage, topicIdeas, generatedPost,
                   blogName, results, naverSearchResults, error, naverWarning,
                   naverClientId, naverClientSecret, inflight>>
    /\ UNCHANGED edits

\* A Result as handleVisualizationSetup creates it: the optional fields of
\* the type (part_001:36-38) are absent.
InitialResult(p) ==
    [paragraph |-> p, prompt |-> "", imageUrl |-> "",
     uploadedImageFile |-> Undefined, originalImageUrl |-> Undefined,
     editPrompt |-> Undefined, editStatus |-> "pending"]

\* paragraphs.map(p => ({...}))
InitialResults(paragraphs) ==
    [i \in 1..Len(paragraphs) |-> InitialResult(paragraphs[i])]

\* A submit that hands the submitted body to the segmentation whatever the
\* regeneration returned.
SetupTaskSubmittedBody(formState, awaited, finalBlogText) ==
    [handler |-> "handleVisualizationSetup", awaiting |-> awaited,
     formState |-> formState, finalBlogText |-> formState.blogText]

SetupTask(formState, awaited, finalBlogText) ==
    [handler |-> "handleVisualizationSetup", awaiting |-> awaited,
     formState |-> formState, finalBlogText |-> finalBlogText]

SetupTasks(awaited) ==
    {t \in Suspended : t.handler = "handleVisualizationSetup" /\ t.awaiting = awaited}

\* handleVisualizationSetup up to its first await.
handleVisualizationSetup(formState) ==
    /\ SubmitEnabled(formState)
    /\ FormValid(formState)
    /\ CanSuspend
    /\ isLoading' = TRUE
    /\ error' = NoError
    /\ results' = <<>>
    /\ blogName' = formState.blogName
    /\ IF Truthy(formState.blogName)
       THEN /\ loadingMessage' = "regenerating"
            /\ inflight' = Suspend(SetupTask(formState, "generateBlogPost",
                                             formState.blogText))
            /\ lastOp' = Op("handleVisualizationSetup", 0, "generateBlogPost")
       ELSE /\ loadingMessage' = "splitting"
            /\ inflight' = Suspend(SetupTask(formState, "splitTextIntoParagraphs",
                                             formState.blogText))
            /\ lastOp' = Op("handleVisualizationSetup", formState.numParagraphs,
                            "splitTextIntoParagraphs")
    /\ UNCHANGED <<step, topicIdeas, generatedPost, naverSearchResults,
                   naverWarning, naverClientId, naverClientSecret>>
    /\ UNCHANGED edits

\* The regeneration answered: lines 390-395.
SetupRegenerated(task, text) ==
    /\ task \in SetupTasks("generateBlogPost")
    /\ generatedPost' = Trim(text)
    /\ loadingMessage' = "splitting"
    /\ inflight' = Resume(task) (+) SetToBag({SetupTask(task.formState,
                                  "splitTextIntoParagraphs", Trim(text))})
    /\ lastOp' = Op("handleVisualizationSetup:regenerated",
                    task.formState.numParagraphs, "splitTextIntoParagraphs")
    /\ UNCHANGED <<step, isLoading, topicIdeas, blogName, results,
                   naverSearchResults, error, naverWarning, naverClientId,
                   naverClientSecret>>
    /\ UNCHANGED edits

\* The catch and finally blocks, lines 416-422.
SetupCatch(task, errorMessage) ==
    /\ inflight' = Resume(task)
    /\ handleError("setup", errorMessage)
    /\ step' = "VISUALIZE_POST"
    /\ UNCHANGED <<topicIdeas, generatedPost, blogName, results,
                   naverSearchResults, naverWarning, naverClientId,
                   naverClientSecret>>

SetupRegenerateFailed(task) ==
    /\ task \in SetupTasks("generateBlogPost")
    /\ SetupCatch(task, "generateBlogPost")
    /\ lastOp' = Op("handleVisualizationSetup:failed", 0, "none")
    /\ UNCHANGED edits

\* The segmentation answered: lines 396-414.
SetupSplit(task, paragraphs) ==
    /\ task \in SetupTasks("splitTextIntoParagraphs")
    /\ IF Len(paragraphs) = 0
       THEN SetupCatch(task, "noParagraphs")
       ELSE /\ inflight' = Resume(task)
            /\ results' = InitialResults(paragraphs)
            /\ step' = "CUSTOMIZE_IMAGES"
            /\ isLoading' = FALSE
            /\ loadingMessage' = ""
            /\ UNCHANGED <<topicIdeas, generatedPost, blogName,
                           naverSearchResults, error, naverWarning,
                           naverClientId, naverClientSecret>>
    /\ lastOp' = OpEnd("handleVisualizationSetup:split",
                       task.formState.numParagraphs, "none",
                       IF Len(paragraphs) = 0 THEN "thrown" ELSE "completed")
    /\ UNCHANGED edits

SetupSplitFailed(task) ==
    /\ task \in SetupTasks("splitTextIntoParagraphs")
    /\ SetupCatch(task, "splitTextIntoParagraphs")
    /\ lastOp' = Op("handleVisualizationSetup:failed", 0, "none")
    /\ UNCHANGED edits

(***************************************************************************)
(* Reset: the link shown in every stage but the first.                     *)
(***************************************************************************)
\* The state App keeps with useState (App.tsx:277-290).
AppState ==
    [step |-> step, isLoading |-> isLoading, loadingMessage |-> loadingMessage,
     topicIdeas |-> topicIdeas, generatedPost |-> generatedPost,
     blogName |-> blogName, results |-> results,
     naverSearchResults |-> naverSearchResults, error |-> error,
     naverWarning |-> naverWarning, naverClientId |-> naverClientId,
     naverClientSecret |-> naverClientSecret]

\* A reset that leaves the search hits on the screen.
ResetKeepingHits(app) ==
    [app EXCEPT !.step = "GENERATE_TOPIC", !.topicIdeas = <<>>,
                !.generatedPost = "", !.blogName = "", !.results = <<>>,
                !.error = NoError, !.naverWarning = Null]

\* The eight setters handleReset calls, applied to the state app.
Reset(app) ==
    [app EXCEPT !.step = "GENERATE_TOPIC", !.topicIdeas = <<>>,
                !.generatedPost = "", !.blogName = "", !.results = <<>>,
                !.error = NoError, !.naverWarning = Null,
                !.naverSearchResults = <<>>]

handleReset ==
    /\ step # "GENERATE_TOPIC"
    /\ LET after == Reset(AppState)
       IN  /\ step' = after.step
           /\ isLoading' = after.isLoading
           /\ loadingMessage' = after.loadingMessage
           /\ topicIdeas' = after.topicIdeas
           /\ generatedPost' = after.generatedPost
           /\ blogName' = after.blogName
           /\ results' = after.results
           /\ naverSearchResults' = after.naverSearchResults
           /\ error' = after.error
           /\ naverWarning' = after.naverWarning
           /\ naverClientId' = after.naverClientId
           /\ naverClientSecret' = after.naverClientSecret
    /\ lastOp' = Op("handleReset", 0, "none")
    /\ UNCHANGED <<inflight, edits>>

(***************************************************************************)
(* Stage 3: ImageCustomization.tsx and the handlers it is given            *)
(***************************************************************************)
\* An index of the array that holds nothing: handleUpdateResult on an index
\* past the end leaves the indices before it empty.
Hole ==
    [paragraph |-> Undefined, prompt |-> Undefined, imageUrl |-> Undefined,
     uploadedImageFile |-> Undefined, originalImageUrl |-> Undefined,
     editPrompt |-> Undefined, editStatus |-> Undefined]

\* { ...result, ...newResult }
Merge(result, newResult) ==
    [f \in DOMAIN result |-> IF f \in DOMAIN newResult THEN newResult[f] ELSE result[f]]

\* The updater handleUpdateResult passes to setResults.
UpdateResult(prev, index, newResult) ==
    LET n == IF index > Len(prev) THEN index ELSE Len(prev)
        newResults == [i \in 1..n |-> IF i <= Len(prev) THEN prev[i] ELSE Hole]
    IN  [newResults EXCEPT ![index] = Merge(newResults[index], newResult)]

\* FileReader.readAsDataURL
DataUrl(file) == "data:" \o file

\* The cards the component renders (Array.prototype.map, some and every
\* skip the empty indices).
Cards == {i \in 1..Len(results) : results[i] # Hole}

isUploadingMode ==
    \E i \in Cards : \/ results[i].uploadedImageFile # Undefined
                     \/ results[i].originalImageUrl # Undefined

\* A readiness test that takes an edit choice without asking for its directive.
isReadyWithoutDirective ==
    \A i \in Cards : \/ ~Truthy(results[i].uploadedImageFile)
                     \/ results[i].editStatus = "asis"
                     \/ results[i].editStatus = "editing"

isReadyToFinalize ==
    \A i \in Cards : \/ ~Truthy(results[i].uploadedImageFile)
                     \/ results[i].editStatus = "asis"
                     \/ results[i].editStatus = "editing" /\ Truthy(results[i].editPrompt)

\* The file input of card index stands where the preview of the upload will.
FileInputOffered(index) ==
    /\ step = "CUSTOMIZE_IMAGES"
    /\ index \in Cards
    /\ ~Truthy(results[index].originalImageUrl)

\* The radio buttons of card index.
EditOptionsRendered(index) ==
    /\ step = "CUSTOMIZE_IMAGES"
    /\ index \in Cards
    /\ isUploadingMode
    /\ results[index].editStatus \notin {"pending", "error"}

\* The textarea and the translate button of card index.
EditPromptRendered(index) ==
    /\ EditOptionsRendered(index)
    /\ results[index].editStatus \in {"editing", "translating"}

\* handleFileChange up to its await of fileToBase64.
handleFileChange(index, file) ==
    /\ FileInputOffered(index)
    /\ CanSuspend
    /\ inflight' = Suspend([handler |-> "handleFileChange", index |-> index,
                            file |-> file])
    /\ lastOp' = Op("handleFileChange", index, "none")
    /\ UNCHANGED <<step, isLoading, loadingMessage, topicIdeas, generatedPost,
                   blogName, results, naverSearchResults, error, naverWarning,
                   naverClientId, naverClientSecret>>
    /\ edits < MaxEdits
    /\ edits' = edits + 1

FileTasks == {t \in Suspended : t.handler = "handleFileChange"}

UploadedResult(file) ==
    [uploadedImageFile |-> file, originalImageUrl |-> DataUrl(file),
     imageUrl |-> DataUrl(file), editStatus |-> "uploaded"]

FileRead(task) ==
    /\ task \in FileTasks
    /\ inflight' = Resume(task)
    /\ results' = UpdateResult(results, task.index, UploadedResult(task.file))
    /\ lastOp' = Op("handleFileChange:read", task.index, "none")
    /\ UNCHANGED <<step, isLoading, loadingMessage, topicIdeas, generatedPost,
                   blogName, naverSearchResults, error, naverWarning,
                   naverClientId, naverClientSecret>>
    /\ UNCHANGED edits

FileReadFailed(task) ==
    /\ task \in FileTasks
    /\ inflight' = Resume(task)
    /\ results' = UpdateResult(results, task.index, [editStatus |-> "error"])
    /\ lastOp' = Op("handleFileChange:failed", task.index, "none")
    /\ UNCHANGED <<step, isLoading, loadingMessage, topicIdeas, generatedPost,
                   blogName, naverSearchResults, error, naverWarning,
                   naverClientId, naverClientSecret>>
    /\ UNCHANGED edits

\* A radio button's onChange: onUpdateResult(index, { editStatus }).
ChooseEditStatus(index, editStatus) ==
    /\ EditOptionsRendered(index)
    /\ results[index].editStatus # editStatus
    /\ results' = UpdateResult(results, index, [editStatus |-> editStatus])
    /\ lastOp' = Op("onUpdateResult:editStatus", index, "none")
    /\ UNCHANGED <<step, isLoading, loadingMessage, topicIdeas, generatedPost,
                   blogName, naverSearchResults, error, naverWarning,
                   naverClientId, naverClientSecret, inflight>>
    /\ edits < MaxEdits
    /\ edits' = edits + 1

\* value={result.editPrompt || ''}
EditPromptValue(result) ==
    IF Truthy(result.editPrompt) THEN result.editPrompt ELSE ""

\* The textarea's onChange: onUpdateResult(index, { editPrompt }).
SetEditPrompt(index, text) ==
    /\ EditPromptRendered(index)
    /\ results[index].editStatus # "translating"
    /\ text # EditPromptValue(results[index])
    /\ results' = UpdateResult(results, index, [editPrompt |-> text])
    /\ lastOp' = Op("onUpdateResult:editPrompt", index, "none")
    /\ UNCHANGED <<step, isLoading, loadingMessage, topicIdeas, generatedPost,
                   blogName, naverSearchResults, error, naverWarning,
                   naverClientId, naverClientSecret, inflight>>
    /\ edits < MaxEdits
    /\ edits' = edits + 1

\* The translate button: disabled={!result.editPrompt || translating}
TranslateEnabled(index) ==
    /\ EditPromptRendered(index)
    /\ Truthy(results[index].editPrompt)
    /\ results[index].editStatus # "translating"

\* handleTranslate up to its await.
handleTranslate(index) ==
    /\ TranslateEnabled(index)
    /\ CanSuspend
    /\ results' = UpdateResult(results, index, [editStatus |-> "translating"])
    /\ inflight' = Suspend([handler |-> "handleTranslate", index |-> index,
                            textToTranslate |-> EditPromptValue(results[index])])
    /\ lastOp' = Op("handleTranslate", index, "translateToEnglish")
    /\ UNCHANGED <<step, isLoading, loadingMessage, topicIdeas, generatedPost,
                   blogName, naverSearchResults, error, naverWarning,
                   naverClientId, naverClientSecret>>
    /\ edits < MaxEdits
    /\ edits' = edits + 1

TranslateTasks == {t \in Suspended : t.handler = "handleTranslate"}

\* translateToEnglish's clean-up of the answer: trim, then drop the quotes.
CleanTranslation(text) ==
    IF Trim(text) = "\"en\"" THEN "en" ELSE Trim(text)

TranslateResolved(task, text) ==
    /\ task \in TranslateTasks
    /\ inflight' = Resume(task)
    /\ results' = UpdateResult(results, task.index,
                     [editPrompt |-> CleanTranslation(text), editStatus |-> "editing"])
    /\ lastOp' = Op("handleTranslate:resolved", task.index, "none")
    /\ UNCHANGED <<step, isLoading, loadingMessage, topicIdeas, generatedPost,
                   blogName, naverSearchResults, error, naverWarning,
                   naverClientId, naverClientSecret>>
    /\ UNCHANGED edits

TranslateFailed(task) ==
    /\ task \in TranslateTasks
    /\ inflight' = Resume(task)
    /\ handleError("translate", "translateToEnglish")
    /\ results' = UpdateResult(results, task.index, [editStatus |-> "editing"])
    /\ lastOp' = Op("handleTranslate:failed", task.index, "none")
    /\ UNCHANGED <<step, topicIdeas, generatedPost, blogName,
                   naverSearchResults, naverWarning, naverClientId,
                   naverClientSecret>>
    /\ UNCHANGED edits

(***************************************************************************)
(* handleFinalizeImages                                                    *)
(***************************************************************************)
\* The finalize button: disabled={isLoading || (isUploadingMode && !isReadyToFinalize)}
FinalizeEnabled ==
    /\ step = "CUSTOMIZE_IMAGES"
    /\ ~(isLoading \/ (isUploadingMode /\ ~isReadyToFinalize))

\* Which branch of the loop body (lines 456-479) takes the item.
FinalizeCase(current) ==
    CASE current = Hole -> "typeError"
      [] ~Truthy(current.originalImageUrl) /\ ~Truthy(current.uploadedImageFile) ->
            "generate"
      [] /\ current.editStatus = "editing"
         /\ Truthy(current.originalImageUrl)
         /\ Truthy(current.editPrompt)
         /\ Truthy(current.uploadedImageFile) -> "edit"
      [] current.editStatus = "asis" /\ Truthy(current.originalImageUrl) -> "asis"
      [] current.editStatus # "done" -> "notReady"
      [] OTHER -> "keep"

GeneratedResult(current, prompt, imageUrl) ==
    Merge(current, [prompt |-> prompt, imageUrl |-> imageUrl, editStatus |-> "done"])

EditLabel(editPrompt) == "AI edit: " \o editPrompt

EditedResult(current, editedImageUrl) ==
    Merge(current, [imageUrl |-> editedImageUrl,
                    prompt |-> EditLabel(current.editPrompt),
                    editStatus |-> "done"])

OriginalLabel == "original upload"

AsIsResult(current) ==
    Merge(current, [imageUrl |-> current.originalImageUrl,
                    prompt |-> OriginalLabel, editStatus |-> "done"])

\* The loop from item Len(finalResults) + 1 of the captured results up to the
\* next await, the throw, or the end of the list.
RECURSIVE FinalizeLoop(_, _)
FinalizeLoop(captured, finalResults) ==
    LET i == Len(finalResults) + 1
        stop(outcome, awaited) ==
            [outcome |-> outcome, finalResults |-> finalResults, index |-> i,
             awaiting |-> awaited]
    IN  IF i > Len(captured) THEN stop("completed", "none")
        ELSE LET case == FinalizeCase(captured[i])
             IN  CASE case = "generate" -> stop("suspended", "createImagePrompt")
                   [] case = "edit" -> stop("suspended", "editImage")
                   [] case = "asis" ->
                        FinalizeLoop(captured, Append(finalResults, AsIsResult(captured[i])))
                   [] case = "keep" ->
                        FinalizeLoop(captured, Append(finalResults, captured[i]))
                   [] OTHER -> stop("thrown", case)

\* [...finalResults, ...results.slice(finalResults.length)]
Progress(captured, finalResults) ==
    finalResults \o SubSeq(captured, Len(finalResults) + 1, Len(captured))

\* A pass that starts the image synthesis of an item without awaiting the
\* derivation of its prompt.
FinalizeTaskSynthesisFirst(awaited, captured, finalResults, prompt) ==
    [handler |-> "handleFinalizeImages",
     awaiting |-> IF awaited = "createImagePrompt" THEN "generateImage" ELSE awaited,
     results |-> captured, finalResults |-> finalResults, prompt |-> prompt]

FinalizeTask(awaited, captured, finalResults, prompt) ==
    [handler |-> "handleFinalizeImages", awaiting |-> awaited,
     results |-> captured, finalResults |-> finalResults, prompt |-> prompt]

FinalizeTasks(awaited) ==
    {t \in Suspended : t.handler = "handleFinalizeImages" /\ t.awaiting = awaited}

FinalizeMessage(awaited, i, n) ==
    awaited \o " " \o ToString(i) \o "/" \o ToString(n)

FinalizeThrown(case, i) ==
    IF case = "notReady" THEN "notReady " \o ToString(i) ELSE case

\* The handler from the top of an iteration on: the loop, the publication of
\* what it pushed, and then its await, its completion or its catch.
\* others: the handlers that stay suspended; pushed: whether this run of the
\* handler has pushed an item already; name: lastOp's name for the step.
FinalizeRun(name, others, captured, finalResults, pushed) ==
    LET out == FinalizeLoop(captured, finalResults)
    IN  /\ results' = IF pushed \/ Len(out.finalResults) > Len(finalResults)
                      THEN Progress(captured, out.finalResults)
                      ELSE results
        /\ CASE out.outcome = "suspended" ->
                  /\ inflight' = others (+) SetToBag({FinalizeTask(out.awaiting,
                                     captured, out.finalResults, "")})
                  /\ loadingMessage' = FinalizeMessage(out.awaiting, out.index,
                                                       Len(captured))
                  /\ step' = step
                  /\ lastOp' = OpEnd(name, out.index, out.awaiting, "none")
             [] out.outcome = "completed" ->
                  /\ inflight' = others
                  /\ step' = "VIEW_RESULTS"
                  /\ loadingMessage' = ""
                  /\ lastOp' = OpEnd(name, 0, "none", "completed")
             [] OTHER ->
                  /\ inflight' = others
                  /\ step' = "CUSTOMIZE_IMAGES"
                  /\ loadingMessage' = ""
                  /\ lastOp' = OpEnd(name, out.index, "none", "thrown")
        /\ isLoading' = IF out.outcome = "suspended"
                        THEN (IF name = "handleFinalizeImages" THEN TRUE ELSE isLoading)
                        ELSE FALSE
        /\ error' = IF out.outcome = "thrown"
                    THEN ErrorMessage("finalize", FinalizeThrown(out.awaiting, out.index))
                    ELSE IF name = "handleFinalizeImages" THEN NoError ELSE error

\* The click on the finalize button: the handler up to its first await, or
\* to its end when no item needs a call.
handleFinalizeImages ==
    /\ FinalizeEnabled
    /\ CanSuspend
    /\ FinalizeRun("handleFinalizeImages", inflight, results, <<>>, FALSE)
    /\ UNCHANGED <<topicIdeas, generatedPost, blogName, naverSearchResults,
                   naverWarning, naverClientId, naverClientSecret>>
    /\ UNCHANGED edits

\* createImagePrompt answered: the handler goes on to await generateImage.
FinalizePromptResolved(task, prompt) ==
    /\ task \in FinalizeTasks("createImagePrompt")
    /\ inflight' = Resume(task) (+) SetToBag({FinalizeTask("generateImage",
                       task.results, task.finalResults, prompt)})
    /\ loadingMessage' = FinalizeMessage("generateImage", Len(task.finalResults) + 1,
                                         Len(task.results))
    /\ lastOp' = Op("handleFinalizeImages:resumed", Len(task.finalResults) + 1,
                    "generateImage")
    /\ UNCHANGED <<step, isLoading, topicIdeas, generatedPost, blogName, results,
                   naverSearchResults, error, naverWarning, naverClientId,
                   naverClientSecret>>
    /\ UNCHANGED edits

\* generateImage answered: lines 462, 481-482 and the next iterations.
FinalizeImageResolved(task, imageUrl) ==
    /\ task \in FinalizeTasks("generateImage")
    /\ FinalizeRun("handleFinalizeImages:resumed", Resume(task), task.results,
                   Append(task.finalResults,
                          GeneratedResult(task.results[Len(task.finalResults) + 1],
                                          task.prompt, imageUrl)),
                   TRUE)
    /\ UNCHANGED <<topicIdeas, generatedPost, blogName, naverSearchResults,
                   naverWarning, naverClientId, naverClientSecret>>
    /\ UNCHANGED edits

\* editImage answered: lines 470, 481-482 and the next iterations.
FinalizeEditResolved(task, editedImageUrl) ==
    /\ task \in FinalizeTasks("editImage")
    /\ FinalizeRun("handleFinalizeImages:resumed", Resume(task), task.results,
                   Append(task.finalResults,
                          EditedResult(task.results[Len(task.finalResults) + 1],
                                       editedImageUrl)),
                   TRUE)
    /\ UNCHANGED <<topicIdeas, generatedPost, blogName, naverSearchResults,
                   naverWarning, naverClientId, naverClientSecret>>
    /\ UNCHANGED edits

\* An awaited call of the pass failed: the catch and finally blocks.
FinalizeCallFailed(task) ==
    /\ task \in Suspended
    /\ task.handler = "handleFinalizeImages"
    /\ inflight' = Resume(task)
    /\ handleError("finalize", task.awaiting)
    /\ step' = "CUSTOMIZE_IMAGES"
    /\ lastOp' = OpEnd("handleFinalizeImages:resumed", Len(task.finalResults) + 1,
                       "none", "thrown")
    /\ UNCHANGED <<topicIdeas, generatedPost, blogName, results,
                   naverSearchResults, naverWarning, naverClientId,
                   naverClientSecret>>
    /\ UNCHANGED edits

(***************************************************************************)
(* The program as its components let it run.  No control of the upload     *)
(* branch of ImageCustomization (file input, radio buttons, textarea,      *)
(* translate button) is among its steps: the branch is rendered under      *)
(* isUploadingMode (ImageCustomization.tsx:63), which is false until a     *)
(* file has been read.                                                     *)
(***************************************************************************)
TopicStage ==
    \/ \E id \in ClientIds, secret \in ClientSecrets : handleSaveApiKeys(id, secret)
    \/ \E kw \in Keywords : AnalyzeRejected(kw)
    \/ \E kw \in Keywords : handleAnalyzeNaver(kw)
    \/ \E hits \in SearchResponses : AnalyzeResolved(hits)
    \/ AnalyzeFailed
    \/ handleGenerateTopics
    \/ \E topics \in TopicResponses : GenerateTopicsResolved(topics)
    \/ GenerateTopicsFailed
    \/ \E i \in 1..Len(topicIdeas) : handleTopicSelected(topicIdeas[i])
    \/ \E text \in PostTexts : TopicSelectedResolved(text)
    \/ TopicSelectedFailed

SetupStage ==
    \/ \E formState \in FormStates : SubmitRejected(formState)
    \/ \E formState \in FormStates : handleVisualizationSetup(formState)
    \/ \E task \in Suspended, text \in PostTexts : SetupRegenerated(task, text)
    \/ \E task \in Suspended : SetupRegenerateFailed(task)
    \/ \E task \in Suspended, paragraphs \in ParagraphResponses : SetupSplit(task, paragraphs)
    \/ \E task \in Suspended : SetupSplitFailed(task)

Finalize ==
    \/ handleFinalizeImages
    \/ \E task \in Suspended, prompt \in Prompts : FinalizePromptResolved(task, prompt)
    \/ \E task \in Suspended, imageUrl \in GeneratedImages :
          FinalizeImageResolved(task, imageUrl)
    \/ \E task \in Suspended : FinalizeCallFailed(task)

\* The controls of a card.
CardIntent ==
    \/ \E index \in 1..Len(results), file \in Files : handleFileChange(index, file)
    \/ \E index \in 1..Len(results), editStatus \in {"asis", "editing"} :
          ChooseEditStatus(index, editStatus)
    \/ \E index \in 1..Len(results), text \in DirectiveInputs : SetEditPrompt(index, text)
    \/ \E index \in 1..Len(results) : handleTranslate(index)

\* What the handlers of the cards and the edit branch of the pass await.
CardSettled ==
    \/ \E task \in Suspended : FileRead(task)
    \/ \E task \in Suspended : FileReadFailed(task)
    \/ \E task \in Suspended, text \in TranslationTexts : TranslateResolved(task, text)
    \/ \E task \in Suspended : TranslateFailed(task)
    \/ \E task \in Suspended, editedImageUrl \in EditedImages :
          FinalizeEditResolved(task, editedImageUrl)

Next ==
    \/ TopicStage
    \/ SetupStage
    \/ Finalize
    \/ handleReset

Spec == Init /\ [][Next]_vars

(***************************************************************************)
(* The image stage with the upload controls in use.  It starts where a     *)
(* setup submit has just succeeded (a state Spec reaches, see              *)
(* SetupSucceeded) and lets handleFileChange run for any card that has no  *)
(* upload yet; every other control is enabled as the component renders it. *)
(***************************************************************************)
SetupSucceeded ==
    /\ step = "CUSTOMIZE_IMAGES"
    /\ isLoading = FALSE
    /\ loadingMessage = ""
    /\ topicIdeas = <<>>
    /\ generatedPost = "post"
    /\ blogName = ""
    /\ results \in {InitialResults(paragraphs) :
                      paragraphs \in ParagraphResponses \ {<<>>}}
    /\ naverSearchResults = <<"hit">>
    /\ error = NoError
    /\ naverWarning = Null
    /\ naverClientId = "id"
    /\ naverClientSecret = "secret"
    /\ inflight = EmptyBag
    /\ lastOp = OpEnd("handleVisualizationSetup:split", Len(results), "none",
                      "completed")
    /\ edits = 0

InitUpload == SetupSucceeded

NextUpload ==
    \/ CardIntent
    \/ CardSettled
    \/ Finalize
    \/ handleReset

SpecUpload == InitUpload /\ [][NextUpload]_vars

(***************************************************************************)
(* The words of the specification, read on a Result                        *)
(***************************************************************************)
\* editStage = Finalized
Finalized(result) == result.editStatus = "done"

\* The item has an upload: the test of the loop's first branch, negated.
HasUpload(result) ==
    Truthy(result.originalImageUrl) \/ Truthy(result.uploadedImageFile)

\* finalImage is set.
HasFinalImage(result) == Truthy(result.imageUrl)

\* An item the finalize pass can settle: no upload, keep-original, or an
\* edit with a directive.
Resolved(result) ==
    \/ ~HasUpload(result)
    \/ result.editStatus = "asis"
    \/ result.editStatus = "editing" /\ Truthy(result.editPrompt)

\* The suspended handlers of the given kind that the step resumes.
ResumedTasks(handler) ==
    {t \in Suspended : t.handler = handler /\ CopiesIn(t, inflight') < CopiesIn(t, inflight)}

\* The step is one of a finalize pass: the click, or a continuation.
PassStep ==
    lastOp'.op \in {"handleFinalizeImages", "handleFinalizeImages:resumed"}

\* The step ends a finalize pass.
PassEnded == PassStep /\ lastOp'.end # "none"

\* The collections the pass of the step was started on.
PassCaptured ==
    IF lastOp'.op = "handleFinalizeImages" THEN {results}
    ELSE {t.results : t \in ResumedTasks("handleFinalizeImages")}

\* The items the loop of the step comes to: from the item after the one whose
\* call has answered (the first item, on the click) to the item it stops at.
PassReached ==
    LET last == IF lastOp'.end = "completed" THEN Len(results) ELSE lastOp'.idx
        from == IF lastOp'.op = "handleFinalizeImages" THEN {1}
                ELSE {Len(t.finalResults) + 2 : t \in ResumedTasks("handleFinalizeImages")}
    IN  {i \in 1..Len(results) : i <= last /\ \E f \in from : f <= i}

(***************************************************************************)
(* C1  A setup submit with count N that succeeds leaves a collection of    *)
(* exactly N results, in the order of the paragraphs of the segmentation   *)
(* response, whatever list the service returned.                           *)
(***************************************************************************)
C1_SetupYieldsCount ==
    (lastOp.op = "handleVisualizationSetup:split" /\ lastOp.end = "completed") =>
        /\ Len(results) = lastOp.idx
        /\ \A i \in 1..Len(results) : results[i].paragraph = Paragraph(i)

(***************************************************************************)
(* C2  Reset, from any stage and any state, leaves the stage at            *)
(* GENERATE_TOPIC with the topic ideas, the draft, the results and the      *)
(* search hits empty and the warning and the error cleared; a second reset  *)
(* changes nothing, and the state handleReset leaves is that state.         *)
(***************************************************************************)
C2_ResetClearsAndIsIdempotent ==
    LET after == Reset(AppState)
    IN  /\ after.step = "GENERATE_TOPIC"
        /\ after.topicIdeas = <<>>
        /\ after.generatedPost = ""
        /\ after.results = <<>>
        /\ after.naverSearchResults = <<>>
        /\ after.naverWarning = Null
        /\ after.error = NoError
        /\ Reset(after) = after
        /\ lastOp.op = "handleReset" => AppState = after

\* A reset pressed while a call was pending.
C2_ResetWhileLoading ==
    lastOp.op = "handleReset" /\ isLoading /\ inflight # EmptyBag

(***************************************************************************)
(* C3  A finalize pass started on a collection of resolved items ends in    *)
(* one of two ways: at VIEW_RESULTS with every item finalized; or at        *)
(* CUSTOMIZE_IMAGES with an error, the items before the failing index       *)
(* finalized and the failing item and the later ones as they were.          *)
(***************************************************************************)
C3_PassOutcome(captured) ==
    \/ /\ step' = "VIEW_RESULTS"
       /\ Len(results') = Len(captured)
       /\ \A i \in 1..Len(captured) : Finalized(results'[i])
    \/ /\ step' = "CUSTOMIZE_IMAGES"
       /\ error' # NoError
       /\ Len(results') = Len(captured)
       /\ lastOp'.idx \in 1..Len(captured)
       /\ \A i \in 1..Len(captured) :
             IF i < lastOp'.idx THEN Finalized(results'[i])
             ELSE results'[i] = captured[i]

C3_FinalizeIsTotal ==
    [][PassEnded =>
         \A captured \in PassCaptured :
             (\A i \in 1..Len(captured) : Resolved(captured[i])) =>
                 C3_PassOutcome(captured)]_vars

(***************************************************************************)
(* C4  While an item with an upload is in editing with an empty directive,  *)
(* the finalize button is disabled and handleFinalizeImages does not run,   *)
(* so no call is issued for any item.                                       *)
(***************************************************************************)
C4_EditingWithoutDirective ==
    \E i \in 1..Len(results) :
        /\ HasUpload(results[i])
        /\ results[i].editStatus = "editing"
        /\ ~Truthy(results[i].editPrompt)

C4_FinalizeGated ==
    [][C4_EditingWithoutDirective =>
         ~FinalizeEnabled /\ lastOp'.op # "handleFinalizeImages"]_vars

\* The one thing that keeps the button disabled is the missing directive.
C4_OnlyDirectiveMissing ==
    /\ step = "CUSTOMIZE_IMAGES"
    /\ ~isLoading
    /\ C4_EditingWithoutDirective
    /\ \A i \in 1..Len(results) :
          Resolved(results[i]) \/ results[i].editStatus = "editing"

(***************************************************************************)
(* C5  After a search that found the keys missing or whose call failed      *)
(* (no search hits, a warning shown) the topics request is still            *)
(* available.                                                               *)
(***************************************************************************)
C5_TopicsAfterFailedSearch ==
    lastOp.op \in {"handleAnalyzeNaver:noKeys", "handleAnalyzeNaver:failed"} =>
        /\ naverSearchResults = <<>>
        /\ naverWarning # Null
        /\ GenerateTopicsEnabled

C10_LengthFixed ==
    [][/\ Len(results') # Len(results) =>
            lastOp'.op \in {"handleReset", "handleVisualizationSetup",
                            "handleVisualizationSetup:split"}
       /\ lastOp.op = "handleReset" => results' = <<>>]_vars

(***************************************************************************)
(* C11  While a finalize pass is in flight the finalize button is disabled, *)
(* and while a setup submit is in flight the submit button is disabled, so  *)
(* at most one pass and at most one submit are in flight at any time.       *)
(***************************************************************************)
InFlight(handler) ==
    BagCardinality([t \in {u \in Suspended : u.handler = handler} |-> CopiesIn(t, inflight)])

IssuedTasks(handler) ==
    {t \in DOMAIN inflight' :
        t.handler = handler /\ CopiesIn(t, inflight') > CopiesIn(t, inflight)}

\* The item a suspended pass is awaiting a call for.
TaskIndex(task) == Len(task.finalResults) + 1

C12_CallsInOrder ==
    LET issued == IssuedTasks("handleFinalizeImages")
        resumed == ResumedTasks("handleFinalizeImages")
    IN  /\ Cardinality(issued) <= 1
        /\ issued # {} => PassStep
        /\ PassStep =>
             /\ Cardinality(resumed) = IF lastOp'.op = "handleFinalizeImages" THEN 0 ELSE 1
             /\ \A t \in issued :
                  /\ lastOp'.call = t.awaiting /\ lastOp'.idx = TaskIndex(t)
                  /\ t.awaiting = "generateImage" => resumed # {}
                  /\ \A r \in resumed :
                       /\ t.results = r.results
                       /\ TaskIndex(t) >= TaskIndex(r)
                       /\ TaskIndex(t) = TaskIndex(r) <=>
                              r.awaiting = "createImagePrompt" /\ t.awaiting = "generateImage"
                       /\ SubSeq(t.finalResults, 1, Len(r.finalResults)) = r.finalResults
             /\ lastOp'.end = "thrown" => issued = {}

C12_OneCallAtATime == [][C12_CallsInOrder]_vars

\* The pass awaits the image synthesis of its second item: the calls of the
\* first item and the prompt derivation of the second have completed.
C12_SecondItemSynthesis ==
    /\ lastOp = Op("handleFinalizeImages:resumed", 2, "generateImage")
    /\ InFlight("handleFinalizeImages") = 1


(***************************************************************************)
(* C13  Every write to the collection is made by an operation of the       *)
(* active stage: a step that completes (or continues) a suspended handler  *)
(* and changes the collection is taken in the stage whose view starts that *)
(* handler.                                                                *)
(***************************************************************************)
\* The stage whose view holds the control that starts the handler.
StageOf(handler) ==
    CASE handler = "handleVisualizationSetup" -> "VISUALIZE_POST"
      [] handler \in {"handleFinalizeImages", "handleFileChange", "handleTranslate"} ->
            "CUSTOMIZE_IMAGES"
      [] OTHER -> "GENERATE_TOPIC"

C13_WritesByActiveStage ==
    [][results' # results =>
          \A t \in Suspended :
              t \in ResumedTasks(t.handler) => step = StageOf(t.handler)]_vars


(***************************************************************************)
(* C14  The stage changes only by a successful draft (from GENERATE_TOPIC  *)
(* to VISUALIZE_POST), a successful segmentation (from VISUALIZE_POST to   *)
(* CUSTOMIZE_IMAGES), a successful finalize (from CUSTOMIZE_IMAGES to      *)
(* VIEW_RESULTS) and a reset (from any other stage to GENERATE_TOPIC).     *)
(***************************************************************************)
C14_StageStep ==
    \/ /\ step = "GENERATE_TOPIC" /\ step' = "VISUALIZE_POST"
       /\ lastOp'.op = "handleTopicSelected:resolved"
    \/ /\ step = "VISUALIZE_POST" /\ step' = "CUSTOMIZE_IMAGES"
       /\ lastOp'.op = "handleVisualizationSetup:split" /\ lastOp'.end = "completed"
    \/ /\ step = "CUSTOMIZE_IMAGES" /\ step' = "VIEW_RESULTS"
       /\ PassStep /\ lastOp'.end = "completed"
    \/ /\ step # "GENERATE_TOPIC" /\ step' = "GENERATE_TOPIC"
       /\ lastOp'.op = "handleReset"

C14_StageChanges == [][step' # step => C14_StageStep]_vars


(***************************************************************************)
(* C15  When a setup submit succeeds, the file input is rendered for every *)
(* paragraph if the submitted image source is upload, and for none if it   *)
(* is generate.                                                            *)
(***************************************************************************)
\* The file input of card index as the component renders it: in the upload
\* branch of the card, which is taken under isUploadingMode.
FileInputRendered(index) == isUploadingMode /\ FileInputOffered(index)

C15_UploadOffered ==
    [][lastOp'.op = "handleVisualizationSetup:split" /\ lastOp'.end = "completed" =>
          \A t \in ResumedTasks("handleVisualizationSetup") :
              \A index \in 1..Len(results') :
                  FileInputRendered(index)' <=> t.formState.imageSource = "upload"]_vars

\* No state has a card in the upload branch.
C15_NeverUploadingMode == ~isUploadingMode


(***************************************************************************)
(* C16  A setup submit whose body is empty or whitespace only, or whose    *)
(* paragraph count is less than 1, is rejected locally: every call of a    *)
(* setup submit carries a form with a non-blank body and a count of at     *)
(* least 1, and the rejection of a submit changes neither the stage, the   *)
(* draft, the collection, the error nor the handlers in flight.            *)
(***************************************************************************)
C16_RejectedLocally ==
    [][/\ \A t \in IssuedTasks("handleVisualizationSetup") :
             /\ Trim(t.formState.blogText) # ""
             /\ t.formState.numParagraphs >= 1
       /\ lastOp'.op = "handleFormSubmit:rejected" =>
             /\ step' = "VISUALIZE_POST"
             /\ UNCHANGED <<step, generatedPost, results, error, inflight,
                            isLoading, blogName>>]_vars

\* A submit has just been rejected in the form of a populated draft.
C16_SubmitRejected ==
    /\ lastOp.op = "handleFormSubmit:rejected"
    /\ step = "VISUALIZE_POST"
    /\ generatedPost = "post"
    /\ inflight = EmptyBag


(***************************************************************************)
(* C17  When a call of a setup submit fails, or the segmentation returns   *)
(* no paragraph, the stage remains VISUALIZE_POST (it is VISUALIZE_POST    *)
(* before and after the step), an error is surfaced and the collection is  *)
(* empty.                                                                  *)
(***************************************************************************)
\* The step is the catch block of a setup submit.
SetupFailedStep ==
    \/ lastOp'.op = "handleVisualizationSetup:failed"
    \/ lastOp'.op = "handleVisualizationSetup:split" /\ lastOp'.end = "thrown"

\* What the catch block leaves.
C17_AfterFailure ==
    step' = "VISUALIZE_POST" /\ error' # NoError /\ results' = <<>>

C17_SetupFailureStays ==
    [][SetupFailedStep => step = "VISUALIZE_POST" /\ C17_AfterFailure]_vars


(***************************************************************************)
(* C18  A setup submit with a non-empty personalization name issues the    *)
(* regeneration call and not the segmentation call; the segmentation call  *)
(* of such a submit is issued by the completion of its regeneration, with  *)
(* the text that this step stores as the draft.  A submit with an empty    *)
(* name issues the segmentation call with the submitted body, and no       *)
(* regeneration call is ever issued for it.                                *)
(***************************************************************************)
C18_Step ==
    LET issued == IssuedTasks("handleVisualizationSetup")
        resumed == ResumedTasks("handleVisualizationSetup")
    IN  /\ lastOp'.op = "handleVisualizationSetup" =>
               Cardinality(issued) = 1 /\ resumed = {}
        /\ \A t \in issued :
             IF Truthy(t.formState.blogName)
             THEN \/ /\ lastOp'.op = "handleVisualizationSetup"
                     /\ t.awaiting = "generateBlogPost"
                  \/ /\ lastOp'.op = "handleVisualizationSetup:regenerated"
                     /\ t.awaiting = "splitTextIntoParagraphs"
                     /\ \E r \in resumed : /\ r.awaiting = "generateBlogPost"
                                           /\ r.formState = t.formState
                     /\ generatedPost' = t.finalBlogText
             ELSE /\ lastOp'.op = "handleVisualizationSetup"
                  /\ t.awaiting = "splitTextIntoParagraphs"
                  /\ t.finalBlogText = t.formState.blogText
                  /\ generatedPost' = generatedPost

C18_RegenerateThenSplit == [][C18_Step]_vars

\* The segmentation of a personalized submit is awaited with a regenerated
\* text that differs from the submitted body.
C18_SplitOfRegeneratedText ==
    /\ lastOp.op = "handleVisualizationSetup:regenerated"
    /\ \E t \in Suspended :
          /\ t.handler = "handleVisualizationSetup"
          /\ t.awaiting = "splitTextIntoParagraphs"
          /\ Truthy(t.formState.blogName)
          /\ t.finalBlogText # t.formState.blogText
          /\ generatedPost = t.finalBlogText


(***************************************************************************)
(* C19  Selecting a topic ends in one of two states: when the draft call   *)
(* succeeds, stage VISUALIZE_POST with a non-empty draft; when it fails,   *)
(* stage GENERATE_TOPIC with an error surfaced.  In both the candidate     *)
(* list is empty.                                                          *)
(***************************************************************************)
C19_Succeeded ==
    step' = "VISUALIZE_POST" /\ generatedPost' # "" /\ topicIdeas' = <<>>

C19_Failed ==
    step' = "GENERATE_TOPIC" /\ error' # NoError /\ topicIdeas' = <<>>

C19_TopicSelectionOutcome ==
    [][/\ lastOp'.op = "handleTopicSelected:resolved" => C19_Succeeded
       /\ lastOp'.op = "handleTopicSelected:failed" => C19_Failed]_vars


(***************************************************************************)
(* C20  When a request for topic ideas settles, the stage is still         *)
(* GENERATE_TOPIC, the candidate list holds exactly 3 titles or is empty   *)
(* with an error surfaced, and the search hits are unchanged.              *)
(***************************************************************************)
\* The step settles handleGenerateTopics.
TopicsSettled ==
    lastOp'.op \in {"handleGenerateTopics:resolved", "handleGenerateTopics:failed"}

C20_ThreeTitlesOrError ==
    [][TopicsSettled =>
          /\ step = "GENERATE_TOPIC" /\ step' = "GENERATE_TOPIC"
          /\ \/ Len(topicIdeas') = 3
             \/ topicIdeas' = <<>> /\ error' # NoError
          /\ lastOp'.op = "handleGenerateTopics:failed" => topicIdeas' = <<>>
          /\ naverSearchResults' = naverSearchResults]_vars


(***************************************************************************)
(* C21  When a finalize pass comes to an item that has an upload and is    *)
(* uploaded, translating, or editing with an empty directive, the pass     *)
(* ends in its catch block with the error that names the item's index; the *)
(* item is not done afterwards and the stage is not VIEW_RESULTS.          *)
(***************************************************************************)
\* An item with an upload that the finalize pass cannot settle.
Unresolved(result) ==
    /\ HasUpload(result)
    /\ \/ result.editStatus \in {"uploaded", "translating"}
       \/ result.editStatus = "editing" /\ ~Truthy(result.editPrompt)

EditCallCompleted(i, editPrompt) ==
    /\ lastOp'.op = "handleFinalizeImages:resumed"
    /\ \E r \in ResumedTasks("handleFinalizeImages") :
          /\ r.awaiting = "editImage"
          /\ TaskIndex(r) = i
          /\ r.results[i].editPrompt = editPrompt

C22_Step(i) ==
    \/ PassStep /\ results[i].editStatus = "asis"
    \/ /\ results[i].editStatus = "editing"
       /\ Truthy(results[i].editPrompt)
       /\ EditCallCompleted(i, results[i].editPrompt)

C24_Step ==
    /\ lastOp'.op \in {"handleAnalyzeNaver:resolved", "handleAnalyzeNaver:failed",
                       "handleAnalyzeNaver:noKeys"} =>
          /\ step' = "GENERATE_TOPIC"
          /\ error' = NoError
          /\ IF lastOp'.op = "handleAnalyzeNaver:resolved"
             THEN /\ naverSearchResults' \in SearchResponses
                  /\ Len(naverSearchResults') = lastOp'.idx
                  /\ naverWarning' = Null
             ELSE /\ naverSearchResults' = <<>>
                  /\ naverWarning' # Null
    /\ lastOp'.op = "handleAnalyzeNaver:noKeys" =>
          /\ ~Truthy(naverClientId) \/ ~Truthy(naverClientSecret)
          /\ inflight' = inflight
    /\ lastOp'.call = "searchNaverBlogs" =>
          Truthy(naverClientId) /\ Truthy(naverClientSecret)

C24_SearchOutcome == [][C24_Step]_vars

\* A search has just failed.
C24_SearchFailed ==
    /\ lastOp.op = "handleAnalyzeNaver:failed"
    /\ naverWarning = "searchFailed"
    /\ naverSearchResults = <<>>


(***************************************************************************)
(* naverService: searchNaverBlogs (src/unnamed/part_001).  The file is in  *)
(* the sources twice, lines 334-375 and 389-428; the two copies differ in  *)
(* the catch block of the non-success branch.  A call is a record of       *)
(* inflight, suspended at fetch, response.json() or response.text(); once  *)
(* settled it stays there until the caller's await takes its outcome.      *)
(***************************************************************************)
\* The two copies of searchNaverBlogs, by the line they start at.
SearchCopies == {"part_001:334", "part_001:389"}

\* What the proxy answers with: the status line and the kind of the body.
\* "items" is the JSON of a search answer, "errorMessage" the JSON of a Naver
\* error, "object" a JSON object with neither field, "null" the JSON null,
\* "html" a body that is not JSON.
SearchStatuses == {"200", "401"}
SearchStatusTexts == {"", "Unauthorized"}
SearchBodies == {"items", "errorMessage", "object", "null", "html"}

NoResponse == [status |-> "none", statusText |-> "", body |-> "none", bodyUsed |-> FALSE]

FetchResponses ==
    [status : SearchStatuses, statusText : SearchStatusTexts, body : SearchBodies,
     bodyUsed : {FALSE}]

\* response.ok
ResponseOk(response) == response.status = "200"

JsError(name, message) == [name |-> name, message |-> message]
NoJsError == JsError("none", "")

\* The message of the error thrown for a transport failure.
NetworkErrorMessage == "network error"

\* The rejections of fetch, response.json() and response.text().
FailedToFetch == JsError("TypeError", "Failed to fetch")
NotJson == JsError("SyntaxError", "Unexpected token <")
ReadOfNull == JsError("TypeError", "Cannot read properties of null")
BodyStreamAlreadyRead == JsError("TypeError", "body stream already read")

\* `Naver API error: ${errorData.errorMessage || response.statusText}`
ApiErrorMessage(response) ==
    "Naver API error: " \o (IF response.body = "errorMessage" THEN "auth"
                            ELSE response.statusText)

\* `Naver API request failed. ... ${errorMessage}`
RequestFailedMessage(copy, errorMessage) ==
    (IF copy = "part_001:334"
     THEN "Naver API request failed. The proxy may be down or blocking the request. "
     ELSE "Naver API request failed. ") \o errorMessage

\* What the inner try block throws once response.json() has settled.
ErrorDataThrown(response) ==
    CASE response.body = "html" -> NotJson
      [] response.body = "null" -> ReadOfNull
      [] OTHER -> JsError("Error", ApiErrorMessage(response))

\* The outer catch block: a TypeError becomes the network error, any other
\* error is thrown again.
SearchCatch(thrown) ==
    IF thrown.name = "TypeError" THEN JsError("Error", NetworkErrorMessage) ELSE thrown

SearchTask(copy, awaited, response, caught, outcome, value) ==
    [handler |-> "searchNaverBlogs", copy |-> copy, awaiting |-> awaited,
     response |-> response, caught |-> caught, outcome |-> outcome,
     value |-> value]

SearchTasks(awaited) ==
    {t \in Suspended : t.handler = "searchNaverBlogs" /\ t.awaiting = awaited}

\* The promise of the call is rejected with what the outer catch throws.
SearchRejected(task, thrown) ==
    SearchTask(task.copy, "settled", task.response, NoJsError, "rejected",
               SearchCatch(thrown))

SearchStep(task, next, name) ==
    /\ inflight' = Resume(task) (+) SetToBag({next})
    /\ lastOp' = OpEnd(name, 0, IF next.awaiting = "settled" THEN "none" ELSE next.awaiting,
                       IF next.outcome = "rejected" THEN "thrown"
                       ELSE IF next.outcome = "fulfilled" THEN "completed" ELSE "none")
    /\ UNCHANGED <<step, isLoading, loadingMessage, topicIdeas, generatedPost,
                   blogName, results, naverSearchResults, error, naverWarning,
                   naverClientId, naverClientSecret, edits>>

\* The call up to its await of fetch.
searchNaverBlogs(copy) ==
    /\ CanSuspend
    /\ inflight' = Suspend(SearchTask(copy, "fetch", NoResponse, NoJsError, "pending",
                                      Undefined))
    /\ lastOp' = Op("searchNaverBlogs", 0, "fetch")
    /\ UNCHANGED <<step, isLoading, loadingMessage, topicIdeas, generatedPost,
                   blogName, results, naverSearchResults, error, naverWarning,
                   naverClientId, naverClientSecret, edits>>

\* fetch rejects: the transport failure.
FetchRejected(task) ==
    /\ task \in SearchTasks("fetch")
    /\ SearchStep(task, SearchRejected(task, FailedToFetch), "searchNaverBlogs:fetch")

\* fetch answers: both branches go on to await response.json(), which reads
\* the body.
FetchResponded(task, response) ==
    /\ task \in SearchTasks("fetch")
    /\ SearchStep(task,
                  SearchTask(task.copy, "response.json",
                             [response EXCEPT !.bodyUsed = TRUE], NoJsError,
                             "pending", Undefined),
                  "searchNaverBlogs:fetch")

\* response.json() settles.  With a success status: `return data.items`.
\* Otherwise the inner try block throws and its catch block runs, which in
\* the copy of line 334 first awaits response.text().
JsonSettled(task) ==
    /\ task \in SearchTasks("response.json")
    /\ LET response == task.response
           thrown == ErrorDataThrown(response)
       IN  SearchStep(task,
               IF ResponseOk(response)
               THEN CASE response.body = "html" -> SearchRejected(task, NotJson)
                      [] response.body = "null" -> SearchRejected(task, ReadOfNull)
                      [] OTHER ->
                           SearchTask(task.copy, "settled", response, NoJsError,
                                      "fulfilled",
                                      IF response.body = "items" THEN "items"
                                      ELSE Undefined)
               ELSE IF task.copy = "part_001:334"
                    THEN SearchTask(task.copy, "response.text", response, thrown,
                                    "pending", Undefined)
                    ELSE SearchRejected(task,
                             JsError("Error",
                                     RequestFailedMessage(task.copy, thrown.message))),
               "searchNaverBlogs:json")

\* response.text() settles: it rejects when the body has been read already.
TextSettled(task) ==
    /\ task \in SearchTasks("response.text")
    /\ SearchStep(task,
                  SearchRejected(task,
                      IF task.response.bodyUsed THEN BodyStreamAlreadyRead
                      ELSE JsError("Error",
                               RequestFailedMessage(task.copy, task.caught.message))),
                  "searchNaverBlogs:text")

\* The caller's await takes the outcome of the call.
SearchAwaited(task) ==
    /\ task \in SearchTasks("settled")
    /\ inflight' = Resume(task)
    /\ lastOp' = Op("searchNaverBlogs:awaited", 0, "none")
    /\ UNCHANGED <<step, isLoading, loadingMessage, topicIdeas, generatedPost,
                   blogName, results, naverSearchResults, error, naverWarning,
                   naverClientId, naverClientSecret, edits>>

\* The search client on its own, called with the keys in place.
InitSearch == Init /\ Truthy(naverClientId) /\ Truthy(naverClientSecret)

NextSearch ==
    \/ \E copy \in SearchCopies : searchNaverBlogs(copy)
    \/ \E task \in Suspended : FetchRejected(task)
    \/ \E task \in Suspended, response \in FetchResponses : FetchResponded(task, response)
    \/ \E task \in Suspended : JsonSettled(task)
    \/ \E task \in Suspended : TextSettled(task)
    \/ \E task \in Suspended : SearchAwaited(task)

SpecSearch == InitSearch /\ [][NextSearch]_vars

(***************************************************************************)
(* C25  A call of searchNaverBlogs whose fetch rejected is rejected with   *)
(* the network-error message; a call whose response has a non-success      *)
(* status is rejected with a request-failed or API-error message and not   *)
(* with the network-error message, whatever the body.                      *)
(***************************************************************************)
\* Every message of the request-failed and API-error kinds.
RequestFailedMessages ==
    LET apiErrors == {ApiErrorMessage(response) : response \in FetchResponses}
        inner == apiErrors \cup {NotJson.message, ReadOfNull.message}
    IN  apiErrors \cup {RequestFailedMessage(copy, m) : copy \in SearchCopies, m \in inner}

C25_DistinguishableErrors ==
    \A t \in SearchTasks("settled") :
        /\ t.response = NoResponse =>
               t.outcome = "rejected" /\ t.value.message = NetworkErrorMessage
        /\ (t.response # NoResponse /\ ~ResponseOk(t.response)) =>
               /\ t.outcome = "rejected"
               /\ t.value.message # NetworkErrorMessage
               /\ t.value.message \in RequestFailedMessages


(***************************************************************************)
(* C26  When a finalize pass is aborted by the failure of a service call,  *)
(* and nothing else has touched the collection during the pass, the        *)
(* finalize button is enabled in the state the pass leaves.                *)
(***************************************************************************)
\* The step is the catch block of a pass whose awaited call failed.
PassCallFailed ==
    /\ PassEnded
    /\ lastOp'.end = "thrown"
    /\ error'.detail \in {"createImagePrompt", "generateImage", "editImage"}

\* Nothing but the pass has written the collection since the pass began:
\* the collection is what the pass published last.
PassUndisturbed ==
    \A r \in ResumedTasks("handleFinalizeImages") :
        results = Progress(r.results, r.finalResults)

C27_FinalizedUntouched ==
    [][PassStep =>
         \A i \in PassReached :
             (results[i] # Hole /\ Finalized(results[i])) =>
                 /\ ~(lastOp'.idx = i /\ lastOp'.call # "none")
                 /\ i <= Len(results')
                 /\ results'[i].imageUrl = results[i].imageUrl
                 /\ results'[i].prompt = results[i].prompt]_vars


(***************************************************************************)
(* C28  When a translation for paragraph i completes, by success or by     *)
(* failure, while item i is in asis, item i is in asis afterwards.         *)
(***************************************************************************)
\* The step settles handleTranslate.
TranslateSettled ==
    lastOp'.op \in {"handleTranslate:resolved", "handleTranslate:failed"}

RetryParagraphs == 3

PassFailedOnLast ==
    /\ step = "CUSTOMIZE_IMAGES"
    /\ isLoading = FALSE
    /\ loadingMessage = ""
    /\ topicIdeas = <<>>
    /\ generatedPost = "post"
    /\ blogName = ""
    /\ results = [i \in 1..RetryParagraphs |->
                    IF i < RetryParagraphs
                      THEN GeneratedResult(InitialResult(Paragraph(i)),
                                           "prompt", "data:generated")
                      ELSE InitialResult(Paragraph(i))]
    /\ naverSearchResults = <<"hit">>
    /\ error = ErrorMessage("finalize", "createImagePrompt")
    /\ naverWarning = Null
    /\ naverClientId = "id"
    /\ naverClientSecret = "secret"
    /\ inflight = EmptyBag
    /\ lastOp = OpEnd("handleFinalizeImages:resumed", RetryParagraphs, "none",
                      "thrown")
    /\ edits = 0

InitRetry == PassFailedOnLast

SpecRetry == InitRetry /\ [][NextUpload]_vars

=============================================================================
